---------------------------- MODULE Spec2Model ----------------------------
(***************************************************************************)
(* A model of examples/kfac_pre.py: sampling of one-hot targets from the   *)
(* model's predictive distribution, the augmented forward pass, the        *)
(* bookkeeping of per-layer samples and the estimates of the Kronecker     *)
(* factors.                                                                *)
(*                                                                         *)
(* Numbers.  Probabilities and uniform draws are exact multiples of        *)
(* 1/Unit; log-probabilities are integers in thousandths of a nat; the     *)
(* entries of the factor matrices are exact rationals <<num, den>>.        *)
(* Arrays of the sampling part are indexed from 0 as in the source.        *)
(***************************************************************************)
EXTENDS Integers, Sequences, FiniteSets, TLC

VARIABLES
    \* ---- sampling (model_predictive_log_likelihood) ----
    logprobs,               \* N x D array of log-probabilities of the batch
    rand,                   \* the N uniform draws of npr.rand(N, 1)
    model_sampled_targets,  \* the N x D array sample_discrete_from_log returned
    ll,                     \* the scalar model_predictive_log_likelihood returned
    raised,                 \* "none" or the exception the call ended with
    first,                  \* the first evaluation: its batch, draws and scalar
    spc,                    \* position of the sampling experiment
    \* ---- collect_activations_and_grad_samples ----
    params,                 \* per layer, the shapes of (W, b)
    inputs,                 \* the input batch
    extra_biases,           \* per layer, the zero perturbation added to s
    all_activations,        \* the list the forward pass builds
    s,                      \* the pre-activation of the layer just computed
    seen,                   \* per layer, the array the layer was applied to
    a_samples,              \* the activation samples returned
    g_samples,              \* the gradient samples returned
    cpc,                    \* position of the call
    \* ---- the script: sample lists and factor estimates ----
    layer_sizes,            \* the widths of the layers
    lists,                  \* the list objects: identity -> its entries
    all_samples,            \* [a lists, g lists]: per layer, a list object
    passed,                 \* the new_samples of every collect_samples call
    mats,                   \* the array objects: identity -> its matrix
    factor_estimates,       \* (As, Gs): per layer, an array object
    old_estimates,          \* the old_estimates argument of the last update
    old_values,             \* the matrices old_estimates held at that call
    Ahats,                  \* the fresh estimates of the last update
    Ghats,
    eps,                    \* the eps of the last update
    updates,                \* update_factor_estimates calls so far
    collects,               \* collect_samples calls so far
    kpc                     \* position of the script

svars == <<logprobs, rand, model_sampled_targets, ll, raised, first, spc>>
cvars == <<params, inputs, extra_biases, all_activations, s, seen,
           a_samples, g_samples, cpc>>
kvars == <<layer_sizes, lists, all_samples, passed, mats, factor_estimates,
           old_estimates, old_values, Ahats, Ghats, eps, updates, collects, kpc>>
vars == <<svars, cvars, kvars>>

-----------------------------------------------------------------------------
(* Bounds *)
BatchRows == 2      \* N: examples of a batch
NumClasses == 2     \* D: columns of the log-probability array
MaxLayers == 3      \* most layers of the network of the forward pass
MaxWidth == 2       \* widest layer of the network of the forward pass
MaxInputs == 2      \* most rows of the input batch of the forward pass
MaxRows == 2        \* most rows of a batch of samples of the script
MaxCollects == 2    \* most collect_samples calls of a run of the script
MaxUpdates == 2     \* most update_factor_estimates calls of a run

-----------------------------------------------------------------------------
(* Generic helpers *)

RECURSIVE SumTo(_, _)
\* f[0] + ... + f[n-1]
SumTo(f, n) == IF n = 0 THEN 0 ELSE SumTo(f, n - 1) + f[n - 1]

Permutations0(n) ==
    {p \in [0..(n-1) -> 0..(n-1)] : \A i, j \in 0..(n-1) : i # j => p[i] # p[j]}

-----------------------------------------------------------------------------
(* The parts a specification leaves alone *)

SIdle ==
    /\ logprobs = <<>> /\ rand = <<>> /\ model_sampled_targets = <<>>
    /\ ll = 0 /\ raised = "none" /\ first = <<>> /\ spc = "idle"

CIdle ==
    /\ params = <<>> /\ inputs = <<>> /\ extra_biases = <<>>
    /\ all_activations = <<>> /\ s = <<>> /\ seen = <<>>
    /\ a_samples = <<>> /\ g_samples = <<>> /\ cpc = "idle"

KIdle ==
    /\ layer_sizes = <<>> /\ lists = <<>> /\ all_samples = <<>>
    /\ passed = <<>> /\ mats = <<>> /\ factor_estimates = <<>>
    /\ old_estimates = <<>> /\ old_values = <<>> /\ Ahats = <<>>
    /\ Ghats = <<>> /\ eps = <<>> /\ updates = 0 /\ collects = 0
    /\ kpc = "idle"

-----------------------------------------------------------------------------
(* sample_discrete_from_log *)

\* The log-probabilities a row may hold, in thousandths of a nat:
\* log 1, log 2/3, log 1/3, and -800, whose exponential underflows to 0.0.
LogVals == {0, -405, -1099, -800000}

\* np.exp on LogVals, in units of 1/3.
exp(l) ==
    CASE l = 0 -> 3
      [] l = -405 -> 2
      [] l = -1099 -> 1
      [] l = -800000 -> 0

\* The probability 1.0 in the units of exp.
Unit == exp(0)

\* npr.rand draws from [0, 1): the multiples of 1/Unit below 1.
Draws == 0..(Unit - 1)

\* np.cumsum(probs, axis=1) of one row
cumsum(probs, D) == [j \in 0..(D-1) |-> SumTo(probs, j + 1)]

\* np.eye(D)[k]: row k of the identity (defined for k in 0..D-1 only)
eye_row(D, k) == [j \in 0..(D-1) |-> IF j = k THEN 1 ELSE 0]

indices_Below(lp, u, N, D) ==
    [i \in 0..(N-1) |->
        LET probs == [j \in 0..(D-1) |-> exp(lp[i][j])]
            cumvals == cumsum(probs, D)
        IN  Cardinality({j \in 0..(D-1) : u[i] < cumvals[j]})]

indices_SharedDraw(lp, u, N, D) ==
    [i \in 0..(N-1) |->
        LET probs == [j \in 0..(D-1) |-> exp(lp[i][j])]
            cumvals == cumsum(probs, D)
        IN  Cardinality({j \in 0..(D-1) : u[0] > cumvals[j]})]

\* np.sum(npr.rand(N, 1) > cumvals, axis=1)
indices(lp, u, N, D) ==
    [i \in 0..(N-1) |->
        LET probs == [j \in 0..(D-1) |-> exp(lp[i][j])]
            cumvals == cumsum(probs, D)
        IN  Cardinality({j \in 0..(D-1) : u[i] > cumvals[j]})]

\* Does np.eye(D)[indices] raise IndexError ?
IndexOutOfRange(lp, u, N, D) ==
    \E i \in 0..(N-1) : indices(lp, u, N, D)[i] \notin 0..(D-1)

sample_discrete_from_log(lp, u, N, D) ==
    [i \in 0..(N-1) |-> eye_row(D, indices(lp, u, N, D)[i])]

\* np.sum(logprobs * model_sampled_targets)
SumProduct(lp, t, N, D) ==
    SumTo([i \in 0..(N-1) |->
             SumTo([j \in 0..(D-1) |-> lp[i][j] * t[i][j]], D)], N)

-----------------------------------------------------------------------------
(* The sampling experiment: a batch is evaluated, its rows are reordered,  *)
(* and it is evaluated again with the same seed.                           *)

\* Rows normalised by s - logsumexp(s): the probabilities sum to 1.
NormalizedRows ==
    {r \in [0..(NumClasses-1) -> LogVals] :
        SumTo([j \in 0..(NumClasses-1) |-> exp(r[j])], NumClasses) = Unit}

NoTargets == [i \in 0..(BatchRows-1) |-> [j \in 0..(NumClasses-1) |-> 0]]

SInit ==
    /\ logprobs \in [0..(BatchRows-1) -> NormalizedRows]
    /\ rand \in [0..(BatchRows-1) -> Draws]
    /\ model_sampled_targets = NoTargets
    /\ ll = 0
    /\ raised = "none"
    /\ first = [logprobs |-> logprobs, rand |-> rand, ll |-> 0]
    /\ spc = "start"
    /\ CIdle
    /\ KIdle

\* model_predictive_log_likelihood, on the log-probabilities of the batch
ModelPredictiveLogLikelihood ==
    /\ spc \in {"start", "permuted"}
    /\ spc' = IF spc = "start" THEN "first" ELSE "second"
    /\ IF IndexOutOfRange(logprobs, rand, BatchRows, NumClasses)
         THEN /\ raised' = "IndexError"
              /\ UNCHANGED <<model_sampled_targets, ll, first>>
         ELSE LET t == sample_discrete_from_log(logprobs, rand, BatchRows, NumClasses)
                  v == SumProduct(logprobs, t, BatchRows, NumClasses)
              IN  /\ model_sampled_targets' = t
                  /\ ll' = v
                  /\ raised' = "none"
                  /\ first' = IF spc = "start"
                                THEN [logprobs |-> logprobs, rand |-> rand, ll |-> v]
                                ELSE first
    /\ UNCHANGED <<logprobs, rand>>
    /\ UNCHANGED <<cvars, kvars>>

\* The caller permutes the examples of the batch; the seed, and so the
\* sequence of draws, is the same.
PermuteBatch ==
    /\ spc = "first"
    /\ \E p \in Permutations0(BatchRows) :
          logprobs' = [i \in 0..(BatchRows-1) |-> logprobs[p[i]]]
    /\ spc' = "permuted"
    /\ UNCHANGED <<rand, model_sampled_targets, ll, raised, first>>
    /\ UNCHANGED <<cvars, kvars>>

\* The caller permutes the examples and each example keeps its draw.
PermuteBatchAndDraws ==
    /\ spc = "first"
    /\ \E p \in Permutations0(BatchRows) :
          /\ logprobs' = [i \in 0..(BatchRows-1) |-> logprobs[p[i]]]
          /\ rand' = [i \in 0..(BatchRows-1) |-> rand[p[i]]]
    /\ spc' = "permuted"
    /\ UNCHANGED <<model_sampled_targets, ll, raised, first>>
    /\ UNCHANGED <<cvars, kvars>>

SNext == ModelPredictiveLogLikelihood \/ PermuteBatch \/ PermuteBatchAndDraws

SpecSample == SInit /\ [][SNext]_vars

-----------------------------------------------------------------------------
(* Properties of the sampling part *)

Evaluated == spc \in {"first", "second"}

OneHot(row, D) ==
    /\ DOMAIN row = 0..(D-1)
    /\ \A j \in 0..(D-1) : row[j] \in {0, 1}
    /\ Cardinality({j \in 0..(D-1) : row[j] = 1}) = 1

\* The column of row i that holds the 1 (rows are one-hot)
SelectedColumn(i) ==
    CHOOSE j \in 0..(NumClasses-1) : model_sampled_targets[i][j] = 1

CumVals(i) ==
    cumsum([j \in 0..(NumClasses-1) |-> exp(logprobs[i][j])], NumClasses)

\* C1: for a batch of normalised rows and draws in [0,1), the call raises
\* nothing and returns an N x D array whose every row holds exactly one 1
\* and zeros elsewhere; every selected index is within 0..D-1.
C1_OneHotRows ==
    Evaluated =>
        /\ raised = "none"
        /\ DOMAIN model_sampled_targets = 0..(BatchRows-1)
        /\ \A i \in 0..(BatchRows-1) :
              /\ OneHot(model_sampled_targets[i], NumClasses)
              /\ indices(logprobs, rand, BatchRows, NumClasses)[i] \in 0..(NumClasses-1)

\* C1's case: a row whose draw is the largest one selects the last column.
C1_Witness ==
    /\ Evaluated
    /\ \E i \in 0..(BatchRows-1) :
          /\ rand[i] = Unit - 1
          /\ model_sampled_targets[i][NumClasses-1] = 1

\* C2: in every row the column set to 1 is the first column whose cumulative
\* probability exceeds the row's draw, also for a draw equal to one of the
\* cumulative probabilities.
C2_FirstExceeding ==
    (Evaluated /\ raised = "none") =>
        \A i \in 0..(BatchRows-1) :
            LET c == SelectedColumn(i)
            IN  /\ CumVals(i)[c] > rand[i]
                /\ \A k \in 0..(NumClasses-1) : k < c => ~(CumVals(i)[k] > rand[i])

\* C7 as stated: with the same sequence of draws, the scalar of a permuted
\* batch is the scalar of the batch.
C7_SameSeedPermutationInvariant ==
    (spc = "second" /\ rand = first.rand) => ll = first.ll

\* The rows have been permuted and every row has kept its draw.
DrawsFollowRows ==
    \E p \in Permutations0(BatchRows) :
        /\ logprobs = [i \in 0..(BatchRows-1) |-> first.logprobs[p[i]]]
        /\ rand = [i \in 0..(BatchRows-1) |-> first.rand[p[i]]]

\* C7 amended: the scalar of a permuted batch is the scalar of the batch
\* when every example row keeps the draw it had.
C7_PermutationWithDrawsInvariant ==
    (spc = "second" /\ DrawsFollowRows) => (raised = "none" /\ ll = first.ll)

\* C7's case: the rows were reordered, the draws with them, and the two rows
\* select different columns.
C7_Witness ==
    /\ spc = "second"
    /\ DrawsFollowRows
    /\ logprobs # first.logprobs
    /\ rand # first.rand
    /\ model_sampled_targets[0] # model_sampled_targets[1]

-----------------------------------------------------------------------------
(* collect_activations_and_grad_samples and the augmented forward pass.    *)
(* An array is its shape and what it holds: of = 0 for the input batch,    *)
(* of = k for the tanh output of layer k.  Lists are sequences: entry i of *)
(* the source is entry i+1 here, layer i of the source is layer i+1.       *)

Max(x, y) == IF x >= y THEN x ELSE y
Min(x, y) == IF x <= y THEN x ELSE y

\* numpy's broadcasting of two dimensions
BroadcastOK(x, y) == x = y \/ x = 1 \/ y = 1

\* init_random_params(param_scale, layer_sizes): W is m x n, b has length n
ParamsOf(ls) ==
    [i \in 1..(Len(ls) - 1) |-> [W |-> <<ls[i], ls[i+1]>>, b |-> <<ls[i+1]>>]]

\* The networks of the forward pass: at least one layer
LayerSizeLists ==
    UNION {[1..n -> 1..MaxWidth] : n \in 2..(MaxLayers + 1)}

ExtraBiases_FromW(ps, x) ==
    [i \in 1..Len(ps) |-> [shape |-> <<x.shape[1], ps[i].W[1]>>]]

\* [np.zeros((inputs.shape[0], b.shape[0])) for W, b in params]
ExtraBiases(ps, x) ==
    [i \in 1..Len(ps) |-> [shape |-> <<x.shape[1], ps[i].b[1]>>]]

\* Can np.dot(a, W) + b + extra_bias be computed ?
AffineOK(a, layer, extra) ==
    /\ a.shape[2] = layer.W[1]
    /\ BroadcastOK(layer.W[2], layer.b[1])
    /\ BroadcastOK(a.shape[1], extra.shape[1])
    /\ BroadcastOK(Max(layer.W[2], layer.b[1]), extra.shape[2])

\* The shape of np.dot(a, W) + b + extra_bias
AffineShape(a, layer, extra) ==
    <<Max(a.shape[1], extra.shape[1]),
      Max(Max(layer.W[2], layer.b[1]), extra.shape[2])>>

\* all_activations[:-1]
all_activations_ButLast(acts) == SubSeq(acts, 1, Len(acts) - 1)

\* grad_and_aux(fun)(extra_biases, ...): the gradient with respect to the
\* first argument, an array per perturbation and of its shape, and the
\* auxiliary value of fun
grad_and_aux(biases, aux) ==
    <<[i \in 1..Len(biases) |-> [shape |-> biases[i].shape, wrt |-> i]], aux>>

CInit ==
    /\ \E ls \in LayerSizeLists, B \in 1..MaxInputs :
          /\ params = ParamsOf(ls)
          /\ inputs = [shape |-> <<B, ls[1]>>, of |-> 0]
    /\ extra_biases = <<>>
    /\ all_activations = <<>>
    /\ s = <<>>
    /\ seen = <<>>
    /\ a_samples = <<>>
    /\ g_samples = <<>>
    /\ cpc = "start"
    /\ SIdle
    /\ KIdle

\* collect_activations_and_grad_samples up to the loop of the forward pass
CollectStart ==
    /\ cpc = "start"
    /\ extra_biases' = ExtraBiases(params, inputs)
    /\ all_activations' = <<inputs>>
    /\ cpc' = "loop"
    /\ UNCHANGED <<params, inputs, s, seen, a_samples, g_samples>>
    /\ UNCHANGED <<svars, kvars>>

\* One iteration of the loop over zip(params, extra_biases)
LayerStep ==
    /\ cpc = "loop"
    /\ Len(all_activations) <= Min(Len(params), Len(extra_biases))
    /\ LET k == Len(all_activations)
           a == all_activations[Len(all_activations)]
       IN  IF AffineOK(a, params[k], extra_biases[k])
             THEN /\ s' = [shape |-> AffineShape(a, params[k], extra_biases[k]),
                           of |-> k]
                  /\ all_activations' = Append(all_activations,
                          [shape |-> AffineShape(a, params[k], extra_biases[k]),
                           of |-> k])
                  /\ seen' = Append(seen, a)
                  /\ cpc' = "loop"
             ELSE /\ cpc' = "ValueError"
                  /\ UNCHANGED <<s, all_activations, seen>>
    /\ UNCHANGED <<params, inputs, extra_biases, a_samples, g_samples>>
    /\ UNCHANGED <<svars, kvars>>

\* The return of the forward pass and of the gradient function
CollectReturn ==
    /\ cpc = "loop"
    /\ Len(all_activations) > Min(Len(params), Len(extra_biases))
    /\ LET r == grad_and_aux(extra_biases, all_activations_ButLast(all_activations))
       IN  /\ g_samples' = r[1]
           /\ a_samples' = r[2]
    /\ cpc' = "done"
    /\ UNCHANGED <<params, inputs, extra_biases, all_activations, s, seen>>
    /\ UNCHANGED <<svars, kvars>>

CNext == CollectStart \/ LayerStep \/ CollectReturn

SpecCollect == CInit /\ [][CNext]_vars

-----------------------------------------------------------------------------
(* Exact rationals <<numerator, denominator>>, in lowest terms, the        *)
(* denominator positive.                                                   *)

Abs(x) == IF x < 0 THEN -x ELSE x

RECURSIVE GCD(_, _)
GCD(a, b) == IF b = 0 THEN a ELSE GCD(b, a % b)

Rat(n, d) == LET g == GCD(Abs(n), d) IN <<n \div g, d \div g>>

RAdd(x, y) == Rat(x[1] * y[2] + y[1] * x[2], x[2] * y[2])
RSub(x, y) == Rat(x[1] * y[2] - y[1] * x[2], x[2] * y[2])
RMul(x, y) == Rat(x[1] * y[1], x[2] * y[2])
RDiv(x, n) == Rat(x[1], x[2] * n)

-----------------------------------------------------------------------------
(* Matrices: sequences of rows.  Sample batches hold integers, factor      *)
(* estimates hold rationals.                                               *)

Rows(x) == Len(x)
Cols(x) == IF Len(x) = 0 THEN 0 ELSE Len(x[1])

RECURSIVE SumSeq(_)
SumSeq(q) == IF q = <<>> THEN 0 ELSE q[1] + SumSeq(Tail(q))

RECURSIVE SetToSortedSeq(_)
SetToSortedSeq(S) ==
    IF S = {} THEN <<>>
    ELSE LET m == CHOOSE x \in S : \A y \in S : x <= y
         IN  <<m>> \o SetToSortedSeq(S \ {m})

\* The ids a structure of two lists of ids holds
IdsOf(pair) ==
    {pair[1][i] : i \in 1..Len(pair[1])} \cup {pair[2][i] : i \in 1..Len(pair[2])}

\* The n smallest ids not in use
FreshIds(used, n) ==
    SubSeq(SetToSortedSeq((1..(Cardinality(used) + n)) \ used), 1, n)

\* np.eye(n)
eye(n) == [i \in 1..n |-> [j \in 1..n |-> IF i = j THEN <<1, 1>> ELSE <<0, 1>>]]

Transpose(x) == [c \in 1..Cols(x) |-> [r \in 1..Rows(x) |-> x[r][c]]]

\* np.dot of two integer matrices
dot(a, b) ==
    [i \in 1..Rows(a) |-> [j \in 1..Cols(b) |->
        SumSeq([k \in 1..Cols(a) |-> a[i][k] * b[k][j]])]]

\* append_homog_coord = lambda x: np.hstack((x, np.ones((x.shape[0], 1))))
append_homog_coord(x) == [r \in 1..Rows(x) |-> Append(x[r], 1)]

identity(x) == x

-----------------------------------------------------------------------------
(* Bookkeeping for samples *)

init_sample_lists_Aliased(ls) ==
    [lists |-> [id \in 1..(2 * (Len(ls) - 1)) |-> <<>>],
     ret   |-> [k \in 1..2 |-> [i \in 1..(Len(ls) - 1) |-> k]]]

\* [[[] for _ in layer_sizes[:-1]] for _ in range(2)]: every [] is a new
\* list object
init_sample_lists(ls) ==
    [lists |-> [id \in 1..(2 * (Len(ls) - 1)) |-> <<>>],
     ret   |-> [k \in 1..2 |-> [i \in 1..(Len(ls) - 1) |->
                                   (k - 1) * (Len(ls) - 1) + i]]]

RECURSIVE append_samples_from(_, _, _, _)
\* The loop of append_samples from pair i of zip(all_samples, new_samples)
append_samples_from(heap, structure, new_samples, i) ==
    IF i > Min(Len(structure), Len(new_samples)) THEN heap
    ELSE append_samples_from(
            [heap EXCEPT ![structure[i]] = Append(@, new_samples[i])],
            structure, new_samples, i + 1)

\* append_samples(all_samples, new_samples): the list objects afterwards
append_samples(heap, structure, new_samples) ==
    append_samples_from(heap, structure, new_samples, 1)

\* The lists a structure holds, by value
Resolve(heap, structure) == [i \in 1..Len(structure) |-> heap[structure[i]]]

-----------------------------------------------------------------------------
(* Bookkeeping for kron factor estimates *)

\* sum(samples.shape[0] for samples in all_samples[0])
num_samples(samples) ==
    SumSeq([j \in 1..Len(samples[1]) |-> Rows(samples[1][j])])

sumsq_Shifted(samples) ==
    dot(Transpose(samples),
        [r \in 1..Rows(samples) |-> [c \in 1..Cols(samples) |->
            samples[r][(c % Cols(samples)) + 1]]])

\* sumsq = lambda samples: np.dot(samples.T, samples)
sumsq(samples) == dot(Transpose(samples), samples)

RECURSIVE MatSum(_)
\* sum(...) of a non-empty list of integer matrices of one shape
MatSum(ms) ==
    IF Len(ms) = 1 THEN ms[1]
    ELSE LET rest == MatSum(Tail(ms))
         IN  [i \in 1..Rows(ms[1]) |-> [j \in 1..Cols(ms[1]) |->
                 ms[1][i][j] + rest[i][j]]]

RECURSIVE RatMatSum(_)
RatMatSum(ms) ==
    IF Len(ms) = 1 THEN ms[1]
    ELSE LET rest == RatMatSum(Tail(ms))
         IN  [i \in 1..Rows(ms[1]) |-> [j \in 1..Cols(ms[1]) |->
                 RAdd(ms[1][i][j], rest[i][j])]]

layer_sumsq_PerBatch(layer_samples, append_homog, n) ==
    LET homog(x) == IF append_homog THEN append_homog_coord(x) ELSE identity(x)
        per == [b \in 1..Len(layer_samples) |->
                  LET m == sumsq(homog(layer_samples[b]))
                  IN  [i \in 1..Rows(m) |-> [j \in 1..Cols(m) |->
                          Rat(m[i][j], Rows(layer_samples[b]))]]]
        total == RatMatSum(per)
    IN  [i \in 1..Rows(total) |-> [j \in 1..Cols(total) |->
            RDiv(total[i][j], Len(layer_samples))]]

\* layer_sumsq = lambda layer_samples:
\*     sum(map(sumsq, map(homog, layer_samples))) / num_samples
layer_sumsq(layer_samples, append_homog, n) ==
    LET homog(x) == IF append_homog THEN append_homog_coord(x) ELSE identity(x)
        total == MatSum([b \in 1..Len(layer_samples) |->
                            sumsq(homog(layer_samples[b]))])
    IN  [i \in 1..Rows(total) |-> [j \in 1..Cols(total) |-> Rat(total[i][j], n)]]

estimate_block_kron_factors(samples, append_homog) ==
    [i \in 1..Len(samples) |->
        layer_sumsq(samples[i], append_homog, num_samples(samples))]

\* Entry (i, j) of an array broadcast to a larger shape
At(a, i, j) ==
    a[IF Rows(a) = 1 THEN 1 ELSE i][IF Cols(a) = 1 THEN 1 ELSE j]

update_Swapped(old, new, e) ==
    [i \in 1..Max(Rows(old), Rows(new)) |-> [j \in 1..Max(Cols(old), Cols(new)) |->
        RAdd(RMul(e, At(new, i, j)), RMul(RSub(<<1, 1>>, e), At(old, i, j)))]]

\* update = lambda old, new: eps*old + (1.-eps)*new
update(old, new, e) ==
    [i \in 1..Max(Rows(old), Rows(new)) |-> [j \in 1..Max(Cols(old), Cols(new)) |->
        RAdd(RMul(e, At(old, i, j)), RMul(RSub(<<1, 1>>, e), At(new, i, j)))]]

\* Can eps*old + (1.-eps)*new be computed for every layer ?
UpdateOK(olds, news) ==
    /\ Len(olds) = Len(news)
    /\ \A i \in 1..Len(olds) :
          /\ BroadcastOK(Rows(olds[i]), Rows(news[i]))
          /\ BroadcastOK(Cols(olds[i]), Cols(news[i]))

update_factor_estimates_InPlace(heap, old, samples, e) ==
    LET As == Resolve(heap, old[1])
        Gs == Resolve(heap, old[2])
        ah == estimate_block_kron_factors(samples[1], TRUE)
        gh == estimate_block_kron_factors(samples[2], FALSE)
    IN  [Ahats |-> ah, Ghats |-> gh, ok |-> UpdateOK(As, ah) /\ UpdateOK(Gs, gh),
         ret   |-> old,
         mats  |-> [id \in IdsOf(old) |->
                      IF \E i \in 1..Len(old[1]) : old[1][i] = id
                        THEN LET i == CHOOSE i \in 1..Len(old[1]) : old[1][i] = id
                             IN  update(As[i], ah[i], e)
                        ELSE LET i == CHOOSE i \in 1..Len(old[2]) : old[2][i] = id
                             IN  update(Gs[i], gh[i], e)]]

\* update_factor_estimates(old_estimates, samples, eps): the arrays it
\* returns are new objects, map builds new lists
update_factor_estimates(heap, old, samples, e) ==
    LET As == Resolve(heap, old[1])
        Gs == Resolve(heap, old[2])
        ah == estimate_block_kron_factors(samples[1], TRUE)
        gh == estimate_block_kron_factors(samples[2], FALSE)
        new == FreshIds(IdsOf(old), Len(As) + Len(Gs))
        newAs == SubSeq(new, 1, Len(As))
        newGs == SubSeq(new, Len(As) + 1, Len(As) + Len(Gs))
    IN  [Ahats |-> ah, Ghats |-> gh, ok |-> UpdateOK(As, ah) /\ UpdateOK(Gs, gh),
         ret   |-> <<newAs, newGs>>,
         mats  |-> [id \in IdsOf(old) \cup IdsOf(<<newAs, newGs>>) |->
                      IF id \in IdsOf(old) THEN heap[id]
                      ELSE IF \E i \in 1..Len(newAs) : newAs[i] = id
                        THEN LET i == CHOOSE i \in 1..Len(newAs) : newAs[i] = id
                             IN  update(As[i], ah[i], e)
                        ELSE LET i == CHOOSE i \in 1..Len(newGs) : newGs[i] = id
                             IN  update(Gs[i], gh[i], e)]]

init_factor_estimates_NoHomog(ls) ==
    <<[i \in 1..(Len(ls) - 1) |-> eye(ls[i])],
      [i \in 1..(Len(ls) - 1) |-> eye(ls[i + 1])]>>

\* map(np.eye, layer_sizes[:-1] + 1), map(np.eye, layer_sizes[1:])
init_factor_estimates(ls) ==
    <<[i \in 1..(Len(ls) - 1) |-> eye(ls[i] + 1)],
      [i \in 1..(Len(ls) - 1) |-> eye(ls[i + 1])]>>

-----------------------------------------------------------------------------
(* The script: samples are collected, the factor estimates are updated     *)
(* from them and the sample lists are started afresh.                      *)

\* The networks of the script, layer_sizes = [784, 200, 100, 10] made small
ScriptLayerSizes == {<<1, 2>>, <<2, 1, 2>>}

\* The values of eps: the default 0.05 and the two ends
EpsValues == {<<0, 1>>, <<1, 20>>, <<1, 1>>}

\* The sample batches differ by the number of rows and by a seed
SampleSeeds == {0, 1}

\* What collect_activations_and_grad_samples returns for a batch of B rows:
\* per layer i an activation sample of B x layer_sizes[i] and a gradient
\* sample of B x layer_sizes[i+1]
NewSamples(ls, B, v) ==
    <<[i \in 1..(Len(ls) - 1) |-> [r \in 1..B |-> [c \in 1..ls[i] |->
          ((v + i + r + 2 * c) % 3) - 1]]],
      [i \in 1..(Len(ls) - 1) |-> [r \in 1..B |-> [c \in 1..ls[i + 1] |->
          ((v + i + 2 * r + c + 1) % 3) - 1]]]>>

\* The state after all_samples = init_sample_lists(layer_sizes) and
\* factor_estimates = init_factor_estimates(layer_sizes)
ScriptInit(sizes) ==
    /\ layer_sizes \in sizes
    /\ lists = init_sample_lists(layer_sizes).lists
    /\ all_samples = init_sample_lists(layer_sizes).ret
    /\ passed = <<>>
    /\ LET L == Len(layer_sizes) - 1
           f == init_factor_estimates(layer_sizes)
       IN  /\ factor_estimates = <<[i \in 1..L |-> i], [i \in 1..L |-> L + i]>>
           /\ mats = [id \in 1..(2 * L) |->
                        IF id <= L THEN f[1][id] ELSE f[2][id - L]]
    /\ old_estimates = <<>>
    /\ old_values = <<>>
    /\ Ahats = <<>>
    /\ Ghats = <<>>
    /\ eps = <<>>
    /\ updates = 0
    /\ collects = 0
    /\ kpc = "collect"
    /\ SIdle
    /\ CIdle

\* collect_samples(params, itr): map(append_samples, all_samples, new_samples)
CollectSamples(most) ==
    /\ kpc = "collect"
    /\ collects < most
    /\ \E B \in 1..MaxRows, v \in SampleSeeds :
          LET new_samples == NewSamples(layer_sizes, B, v)
          IN  /\ lists' = append_samples(
                              append_samples(lists, all_samples[1], new_samples[1]),
                              all_samples[2], new_samples[2])
              /\ passed' = Append(passed, new_samples)
    /\ collects' = collects + 1
    /\ UNCHANGED <<layer_sizes, all_samples, mats, factor_estimates, old_estimates,
                   old_values, Ahats, Ghats, eps, updates, kpc>>
    /\ UNCHANGED <<svars, cvars>>

\* factor_estimates = update_factor_estimates(factor_estimates, all_samples)
UpdateFactorEstimates(most) ==
    /\ kpc = "collect"
    /\ updates < most
    /\ Len(passed) > 0
    /\ \E e \in EpsValues :
          LET samples == <<Resolve(lists, all_samples[1]),
                           Resolve(lists, all_samples[2])>>
              r == update_factor_estimates(mats, factor_estimates, samples, e)
          IN  /\ eps' = e
              /\ Ahats' = r.Ahats
              /\ Ghats' = r.Ghats
              /\ old_estimates' = factor_estimates
              /\ old_values' = <<Resolve(mats, factor_estimates[1]),
                                 Resolve(mats, factor_estimates[2])>>
              /\ IF r.ok
                   THEN /\ mats' = r.mats
                        /\ factor_estimates' = r.ret
                        /\ kpc' = "updated"
                   ELSE /\ kpc' = "ValueError"
                        /\ UNCHANGED <<mats, factor_estimates>>
    /\ updates' = updates + 1
    /\ UNCHANGED <<layer_sizes, lists, all_samples, passed, collects>>
    /\ UNCHANGED <<svars, cvars>>

\* all_samples = init_sample_lists(layer_sizes)
ResetSamples ==
    /\ kpc = "updated"
    /\ lists' = init_sample_lists(layer_sizes).lists
    /\ all_samples' = init_sample_lists(layer_sizes).ret
    /\ passed' = <<>>
    /\ kpc' = "collect"
    /\ UNCHANGED <<layer_sizes, mats, factor_estimates, old_estimates, old_values,
                   Ahats, Ghats, eps, updates, collects>>
    /\ UNCHANGED <<svars, cvars>>

KInit == ScriptInit(ScriptLayerSizes)

KNext ==
    \/ CollectSamples(MaxCollects)
    \/ UpdateFactorEstimates(MaxUpdates)
    \/ ResetSamples

SpecKfac == KInit /\ [][KNext]_vars

\* The script on every network of the forward pass, one batch of samples and
\* one update
ShapesInit == ScriptInit(LayerSizeLists)

ShapesNext ==
    \/ CollectSamples(1)
    \/ UpdateFactorEstimates(1)
    \/ ResetSamples

SpecShapes == ShapesInit /\ [][ShapesNext]_vars

-----------------------------------------------------------------------------
(* Properties of the script *)

NumLayers == Len(layer_sizes) - 1

\* The matrices the current factor estimates hold: 1 for As, 2 for Gs
Estimate(k, i) == mats[factor_estimates[k][i]]

\* The fresh estimates of the last update: 1 for Ahats, 2 for Ghats
Fresh(k, i) == IF k = 1 THEN Ahats[i] ELSE Ghats[i]

\* The batches of layer i the update was given: 1 for a_samples, 2 for g_samples
Batches(k, i) == lists[all_samples[k][i]]

\* x = a*o + (1-a)*f for rationals, as x - f = a*(o - f)
IsBlend(x, a, o, f) == RSub(x, f) = RMul(a, RSub(o, f))

\* C3: for every layer and both factor types the update returns
\* eps*old + (1-eps)*fresh: the old estimate when eps = 1, the fresh estimate
\* of the samples when eps = 0.
C3_UpdateRule ==
    (kpc = "updated") =>
        \A k \in 1..2, i \in 1..NumLayers :
            /\ eps = <<1, 1>> => Estimate(k, i) = old_values[k][i]
            /\ eps = <<0, 1>> => Estimate(k, i) = Fresh(k, i)
            /\ Rows(Estimate(k, i)) = Rows(old_values[k][i])
            /\ Cols(Estimate(k, i)) = Cols(old_values[k][i])
            /\ \A r \in 1..Rows(Estimate(k, i)), c \in 1..Cols(Estimate(k, i)) :
                  IsBlend(Estimate(k, i)[r][c], eps,
                          old_values[k][i][r][c], Fresh(k, i)[r][c])

\* C3's case: an update with eps = 1 whose fresh estimates differ from the
\* old ones.
C3_Witness ==
    /\ kpc = "updated"
    /\ eps = <<1, 1>>
    /\ Ahats # old_values[1]
    /\ Ghats # old_values[2]

\* C4: from init_factor_estimates on and after every update, every A and
\* every G of the factor estimates equals its transpose.
C4_Symmetric ==
    (kpc \in {"collect", "updated"}) =>
        \A k \in 1..2, i \in 1..NumLayers :
            /\ Rows(Estimate(k, i)) = Cols(Estimate(k, i))
            /\ \A r, c \in 1..Rows(Estimate(k, i)) :
                  Estimate(k, i)[r][c] = Estimate(k, i)[c][r]

\* C4's case: after two updates a factor has a non-zero entry off the
\* diagonal.
C4_Witness ==
    /\ updates = 2
    /\ kpc = "updated"
    /\ eps = <<1, 20>>
    /\ \E i \in 1..NumLayers : Estimate(1, i)[1][2][1] # 0

IsIdentity(m, n) ==
    /\ Len(m) = n
    /\ \A i \in 1..n :
          /\ Len(m[i]) = n
          /\ \A j \in 1..n : m[i][j] = IF i = j THEN <<1, 1>> ELSE <<0, 1>>

\* C5: for layer_sizes of length n >= 2 there are n-1 activation factors,
\* factor i the identity of size layer_sizes[i]+1, and n-1 gradient factors,
\* factor i the identity of size layer_sizes[i+1]; an update with samples of
\* those widths returns as many matrices of the same shapes.
C5_InitAndShapes ==
    /\ kpc # "ValueError"
    /\ Len(factor_estimates[1]) = Len(layer_sizes) - 1
    /\ Len(factor_estimates[2]) = Len(layer_sizes) - 1
    /\ \A i \in 1..NumLayers :
          /\ updates = 0 => IsIdentity(Estimate(1, i), layer_sizes[i] + 1)
          /\ updates = 0 => IsIdentity(Estimate(2, i), layer_sizes[i + 1])
          /\ Rows(Estimate(1, i)) = layer_sizes[i] + 1
          /\ Cols(Estimate(1, i)) = layer_sizes[i] + 1
          /\ Rows(Estimate(2, i)) = layer_sizes[i + 1]
          /\ Cols(Estimate(2, i)) = layer_sizes[i + 1]

\* C5's case: an update of the factors of a network of several layers of
\* different widths.
C5_Witness ==
    /\ kpc = "updated"
    /\ Len(layer_sizes) >= 3
    /\ layer_sizes[1] # layer_sizes[2]

\* Row r of batch x with the constant 1 appended when homog is set
HomogRow(x, r, homog) == IF homog THEN Append(x[r], 1) ELSE x[r]

\* Sum over the batches of a layer and their rows of row[a] * row[b]
SumOfProducts(bs, homog, a, b) ==
    SumSeq([j \in 1..Len(bs) |->
        SumSeq([r \in 1..Rows(bs[j]) |->
            HomogRow(bs[j], r, homog)[a] * HomogRow(bs[j], r, homog)[b]])])

\* The sample rows accumulated for a layer
TotalRows(bs) == SumSeq([j \in 1..Len(bs) |-> Rows(bs[j])])

\* C6: for every layer the fresh estimate is the sum over the layer's
\* batches of batch^T . batch, a constant 1 appended to every row for the
\* activation factor, divided by the number of sample rows of the layer over
\* all its batches.
C6_CombinedDenominator ==
    (kpc = "updated") =>
        \A k \in 1..2, i \in 1..NumLayers :
            LET bs == Batches(k, i)
                w == Cols(bs[1]) + (IF k = 1 THEN 1 ELSE 0)
            IN  /\ Rows(Fresh(k, i)) = w
                /\ \A a \in 1..w :
                      /\ Len(Fresh(k, i)[a]) = w
                      /\ \A b \in 1..w :
                            Fresh(k, i)[a][b][1] * TotalRows(bs) =
                            Fresh(k, i)[a][b][2] * SumOfProducts(bs, k = 1, a, b)

\* C6's case: the update was given two batches of different sizes.
C6_Witness ==
    /\ kpc = "updated"
    /\ Len(passed) = 2
    /\ Rows(Batches(1, 1)[1]) # Rows(Batches(1, 1)[2])

\* C8: the two structures hold len(layer_sizes)-1 distinct lists each, empty
\* at first, and after k append_samples calls the list of layer i holds k
\* entries, entry j the layer-i batch of call j.
C8_AppendInOrder ==
    (kpc \in {"collect", "updated"}) =>
        /\ Len(all_samples) = 2
        /\ \A k \in 1..2 : Len(all_samples[k]) = Len(layer_sizes) - 1
        /\ Cardinality(IdsOf(all_samples)) = 2 * (Len(layer_sizes) - 1)
        /\ \A k \in 1..2, i \in 1..NumLayers :
              /\ Len(Batches(k, i)) = Len(passed)
              /\ \A j \in 1..Len(passed) : Batches(k, i)[j] = passed[j][k][i]

\* C8's case: two calls with different batches on a network of two layers.
C8_Witness ==
    /\ Len(passed) = 2
    /\ Len(layer_sizes) = 3
    /\ passed[1] # passed[2]

\* C10 as stated: after the update the matrices old_estimates holds are the
\* blended ones.
C10_MutatedInPlace ==
    (kpc = "updated") =>
        \A k \in 1..2, i \in 1..NumLayers :
            mats[old_estimates[k][i]] = Estimate(k, i)

\* C10 amended: the update returns new arrays and the matrices old_estimates
\* holds are what they were before the call.
C10_OldEstimatesUntouched ==
    (kpc = "updated") =>
        /\ IdsOf(old_estimates) \cap IdsOf(factor_estimates) = {}
        /\ \A k \in 1..2, i \in 1..NumLayers :
              mats[old_estimates[k][i]] = old_values[k][i]

\* C10's case: an update that changes the estimates.
C10_Witness ==
    /\ kpc = "updated"
    /\ eps = <<1, 20>>
    /\ \E i \in 1..NumLayers : Estimate(1, i) # old_values[1][i]

=============================================================================
